---- MODULE Spec2Model ----
(***************************************************************************)
(* Model of the build-metadata command of the adapters library: the       *)
(* orchestrator loop (buildMetadata), the artifact writer                  *)
(* (writeMetadataToFile) and the registry source transformer               *)
(* (addStaticImport, addAdapterMetadataImport, addAdapterMetadataEntry).   *)
(*                                                                         *)
(* Strings are sequences of character codes, so that concatenation,       *)
(* casing and code-unit comparison are computed rather than assumed.       *)
(***************************************************************************)
EXTENDS Integers, Sequences, FiniteSets, TLC

\* ------------------------------------------------------------------------
\* Bounds of the model
\* ------------------------------------------------------------------------
\* number of consecutive runs of the command that are explored
MaxRuns == 2
\* number of adapters kept per (protocol, chain) pair of the roster
MaxAdaptersPerPair == 2
\* number of registrations when the source transformer is explored on its own
MaxRegistrations == 2

\* ------------------------------------------------------------------------
\* Strings
\* ------------------------------------------------------------------------
\* character codes used below:
\*   '-' 45   '.' 46   '/' 47   '0' 48   '_' 95   'x' 120
\*   'A'..'Z' 65..90   'a'..'z' 97..122
IsLower(c) == c >= 97 /\ c <= 122
ToUpper(c) == IF IsLower(c) THEN c - 32 ELSE c
IsSeparator(c) == c \in {45, 95, 32}

\* code-unit lexicographic comparison of two strings: -1, 0 or 1
RECURSIVE CompareStrings(_, _)
CompareStrings(a, b) ==
  IF a = << >> /\ b = << >> THEN 0
  ELSE IF a = << >> THEN -1
  ELSE IF b = << >> THEN 1
  ELSE IF Head(a) < Head(b) THEN -1
  ELSE IF Head(a) > Head(b) THEN 1
  ELSE CompareStrings(Tail(a), Tail(b))

\* pascalCase of core/utils/caseConversion: the words of the input, split at
\* separators, each with its first letter in upper case, concatenated
RECURSIVE PascalFrom(_, _)
PascalFrom(s, atWordStart) ==
  IF s = << >> THEN << >>
  ELSE IF IsSeparator(Head(s)) THEN PascalFrom(Tail(s), TRUE)
  ELSE << (IF atWordStart THEN ToUpper(Head(s)) ELSE Head(s)) >>
         \o PascalFrom(Tail(s), FALSE)

pascalCase(s) == PascalFrom(s, TRUE)

\* ------------------------------------------------------------------------
\* Symbol tables: Protocol and Chain enumerations, chain names
\* ------------------------------------------------------------------------
\* protocol ids "aa", "li"; protocol keys "Aa", "Li"
ProtoAa == <<97, 97>>
ProtoLi == <<108, 105>>
Protocol == [Aa |-> ProtoAa, Li |-> ProtoLi]
ProtocolKeyName == [Aa |-> <<65, 97>>, Li |-> <<76, 105>>]

\* chain ids; chain keys "Et", "Op"; chain names "et", "op"
Ethereum == 1
Optimism == 10
Chain == [Et |-> Ethereum, Op |-> Optimism]
ChainKeyName == [Et |-> <<69, 116>>, Op |-> <<79, 112>>]
ChainName == (Ethereum :> <<101, 116>>) @@ (Optimism :> <<111, 112>>)

\* Object.keys(Protocol).find(k => Protocol[k] === protocolId)
FindProtocolKey(protocolId) ==
  ProtocolKeyName[CHOOSE k \in DOMAIN Protocol : Protocol[k] = protocolId]

\* Object.keys(Chain).find(k => Chain[k] === chainId)
FindChainKey(chainId) ==
  ChainKeyName[CHOOSE k \in DOMAIN Chain : Chain[k] = chainId]

\* ------------------------------------------------------------------------
\* Key derivation
\* ------------------------------------------------------------------------
\* variant of GeneratedIdentifier: the components are joined as they are
GeneratedIdentifierRaw(protocolKey, productId, chainKey, fileKey) ==
  protocolKey \o productId \o chainKey \o fileKey

\* `${protocolKey}${pascalCase(productId)}${chainKey}${pascalCase(fileKey)}`
GeneratedIdentifier(protocolKey, productId, chainKey, fileKey) ==
  protocolKey \o pascalCase(productId) \o chainKey \o pascalCase(fileKey)

\* `.../adapters/${protocolId}/products/${productId}/metadata/
\*      ${ChainName[chainId]}.${fileKey}.json`
\* the constant words of the template are abbreviated to their separators
ArtifactPath(protocolId, productId, chainId, fileKey) ==
  <<47>> \o protocolId \o <<47>> \o productId \o <<47>>
         \o ChainName[chainId] \o <<46>> \o fileKey

KeyIdentifier(k) ==
  GeneratedIdentifier(FindProtocolKey(k.protocolId), k.productId,
                      FindChainKey(k.chainId), k.fileKey)

KeyPath(k) == ArtifactPath(k.protocolId, k.productId, k.chainId, k.fileKey)

\* variant of ImportPath that names the chain by its key
ImportPathByChainKey(protocolId, productId, chainId, fileKey) ==
  <<46, 46, 47>> \o protocolId \o <<47>> \o productId \o <<47>>
                 \o FindChainKey(chainId) \o <<46>> \o fileKey

\* `../../adapters/${protocolId}/products/${productId}/metadata/
\*      ${ChainName[chainId]}.${fileKey}.json`, the literal of the import;
\* "../" stands for the leading "../../adapters/"
ImportPath(protocolId, productId, chainId, fileKey) ==
  <<46, 46, 47>> \o protocolId \o <<47>> \o productId \o <<47>>
                 \o ChainName[chainId] \o <<46>> \o fileKey

KeyImportPath(k) == ImportPath(k.protocolId, k.productId, k.chainId, k.fileKey)

\* the file that an import literal of the registry file designates: the
\* registry file is src/core/metadata/AdapterMetadata.ts, so "../../adapters/"
\* is the directory src/adapters/ under which the artifacts are written;
\* any other literal names a module, not an artifact
ResolveImport(source) ==
  IF Len(source) >= 3 /\ SubSeq(source, 1, 3) = <<46, 46, 47>>
  THEN <<47>> \o SubSeq(source, 4, Len(source))
  ELSE source

\* ------------------------------------------------------------------------
\* The registry source file (core/metadata/AdapterMetadata.ts) as a syntax tree
\* ------------------------------------------------------------------------
\* A file is [syntaxOk, formatted, body]; body is the sequence of top-level
\* statements.  A statement is one of
\*   [kind |-> "import", hasSpecifier, local, source]   import declaration
\*   [kind |-> "decl", init]      const MetadataFiles = <init>
\*   [kind |-> "code", id]        any other statement
\* init is [shape |-> "newMapArray", elements] or [shape |-> "other"];
\* an array element is [kind |-> "pair", key, value] (a two-element array
\* whose second element is an identifier) or [kind |-> "other"].
ImportStmt(local, source) ==
  [kind |-> "import", hasSpecifier |-> TRUE, local |-> local, source |-> source]
BareImportStmt(source) ==
  [kind |-> "import", hasSpecifier |-> FALSE, local |-> << >>, source |-> source]
CodeStmt(id) == [kind |-> "code", id |-> id]
DeclStmt(init) == [kind |-> "decl", init |-> init]
NewMapArray(elements) == [shape |-> "newMapArray", elements |-> elements]
OtherInit == [shape |-> "other"]
OtherElement == [kind |-> "other"]

IsImportDeclaration(node) == node.kind = "import"
IsNotImportDeclaration(node) == node.kind # "import"

\* lodash partition(programNode.body, n.ImportDeclaration.check)
partition(body) ==
  << SelectSeq(body, IsImportDeclaration),
     SelectSeq(body, IsNotImportDeclaration) >>

\* importNodes.find(x => x.specifiers[0].local?.name === identifier):
\* "found", "absent", or "throw" when an import without specifiers is
\* examined before a match (x.specifiers[0] is undefined)
RECURSIVE FindImport(_, _)
FindImport(importNodes, identifier) ==
  IF importNodes = << >> THEN "absent"
  ELSE IF ~Head(importNodes).hasSpecifier THEN "throw"
  ELSE IF Head(importNodes).local = identifier THEN "found"
  ELSE FindImport(Tail(importNodes), identifier)

\* b.importDeclaration([b.importDefaultSpecifier(b.identifier(<identifier>))],
\*                     b.literal(<path>))
buildImportAdapterMetadataEntry(protocolKey, protocolId, productId, chainKey, chainId, fileKey) ==
  ImportStmt(GeneratedIdentifier(protocolKey, productId, chainKey, fileKey),
             ImportPath(protocolId, productId, chainId, fileKey))

\* variant of addAdapterMetadataImport that appends without searching
addAdapterMetadataImportNoFind(body, protocolKey, protocolId, productId, chainKey, chainId, fileKey) ==
  LET parts == partition(body)
  IN [err |-> FALSE,
      body |-> parts[1]
               \o << buildImportAdapterMetadataEntry(protocolKey, protocolId,
                        productId, chainKey, chainId, fileKey) >>
               \o parts[2]]

\* variant of addAdapterMetadataImport that puts the new import first
addAdapterMetadataImportFirst(body, protocolKey, protocolId, productId, chainKey, chainId, fileKey) ==
  LET parts == partition(body)
      found == FindImport(parts[1],
                 GeneratedIdentifier(protocolKey, productId, chainKey, fileKey))
  IN IF found = "throw" THEN [err |-> TRUE, body |-> body]
     ELSE IF found = "found" THEN [err |-> FALSE, body |-> body]
     ELSE [err |-> FALSE,
           body |-> << buildImportAdapterMetadataEntry(protocolKey,
                          protocolId, productId, chainKey, chainId, fileKey) >>
                    \o parts[1] \o parts[2]]

\* variant of addAdapterMetadataImport that reassembles the statements also
\* when the import is found
addAdapterMetadataImportReassemble(body, protocolKey, protocolId, productId, chainKey, chainId, fileKey) ==
  LET parts == partition(body)
      found == FindImport(parts[1],
                 GeneratedIdentifier(protocolKey, productId, chainKey, fileKey))
  IN IF found = "throw" THEN [err |-> TRUE, body |-> body]
     ELSE IF found = "found" THEN [err |-> FALSE, body |-> parts[1] \o parts[2]]
     ELSE [err |-> FALSE,
           body |-> parts[1]
                    \o << buildImportAdapterMetadataEntry(protocolKey,
                             protocolId, productId, chainKey, chainId, fileKey) >>
                    \o parts[2]]

\* addAdapterMetadataImport: result [err, body]
addAdapterMetadataImport(body, protocolKey, protocolId, productId, chainKey, chainId, fileKey) ==
  LET parts == partition(body)
      importNodes == parts[1]
      codeAfterImports == parts[2]
      found == FindImport(importNodes,
                 GeneratedIdentifier(protocolKey, productId, chainKey, fileKey))
  IN IF found = "throw" THEN [err |-> TRUE, body |-> body]
     ELSE IF found = "found" THEN [err |-> FALSE, body |-> body]
     ELSE [err |-> FALSE,
           body |-> importNodes
                    \o << buildImportAdapterMetadataEntry(protocolKey,
                             protocolId, productId, chainKey, chainId, fileKey) >>
                    \o codeAfterImports]

\* the callback handed to sortEntries:
\*   (entry as n.ArrayExpression).elements[1] as n.Identifier).name
\* it fails on an element that is not an array expression
HasSortKey(entry) == entry.kind = "pair"
SortKey(entry) == entry.value

\* utils/sortEntries: stable sort of the entries by code-unit comparison of
\* their keys (insertion of e behind every element whose key is not greater)
RECURSIVE InsertEntry(_, _)
InsertEntry(sorted, e) ==
  IF sorted = << >> THEN << e >>
  ELSE IF CompareStrings(SortKey(e), SortKey(Head(sorted))) < 0
       THEN << e >> \o sorted
  ELSE << Head(sorted) >> \o InsertEntry(Tail(sorted), e)

RECURSIVE sortEntries(_)
sortEntries(entries) ==
  IF entries = << >> THEN << >>
  ELSE InsertEntry(sortEntries(SubSeq(entries, 1, Len(entries) - 1)),
                   entries[Len(entries)])

\* variant of MetadataKeyExpression with productId and fileKey exchanged
MetadataKeyExpressionSwapped(protocolKey, productId, chainKey, fileKey) ==
  [callee |-> "metadataKey",
   protocolId |-> [object |-> "Protocol", property |-> protocolKey],
   productId |-> fileKey,
   chainId |-> [object |-> "Chain", property |-> chainKey],
   fileKey |-> productId]

\* metadataKey({ protocolId: Protocol.<protocolKey>, productId,
\*               chainId: Chain.<chainKey>, fileKey })
MetadataKeyExpression(protocolKey, productId, chainKey, fileKey) ==
  [callee |-> "metadataKey",
   protocolId |-> [object |-> "Protocol", property |-> protocolKey],
   productId |-> productId,
   chainId |-> [object |-> "Chain", property |-> chainKey],
   fileKey |-> fileKey]

\* variant of the new entry whose identifier leaves out the chain key
NewMetadataEntryNoChain(protocolKey, productId, chainKey, fileKey) ==
  [kind |-> "pair",
   key |-> MetadataKeyExpression(protocolKey, productId, chainKey, fileKey),
   value |-> protocolKey \o pascalCase(productId) \o pascalCase(fileKey)]

NewMetadataEntry(protocolKey, productId, chainKey, fileKey) ==
  [kind |-> "pair",
   key |-> MetadataKeyExpression(protocolKey, productId, chainKey, fileKey),
   value |-> GeneratedIdentifier(protocolKey, productId, chainKey, fileKey)]

\* metadataEntries.elements.find(...) of addAdapterMetadataEntry
HasEntry(elements, identifier) ==
  \E i \in 1..Len(elements) :
     elements[i].kind = "pair" /\ elements[i].value = identifier

\* variant of addAdapterMetadataEntry that pushes without searching
addAdapterMetadataEntryNoFind(init, protocolKey, productId, chainKey, fileKey) ==
  IF init.shape # "newMapArray" THEN [err |-> TRUE, init |-> init]
  ELSE LET pushed == Append(init.elements,
                       NewMetadataEntry(protocolKey, productId, chainKey, fileKey))
       IN IF Len(pushed) >= 2 /\ \E i \in 1..Len(pushed) : ~HasSortKey(pushed[i])
          THEN [err |-> TRUE, init |-> init]
          ELSE [err |-> FALSE, init |-> NewMapArray(sortEntries(pushed))]

\* variant of addAdapterMetadataEntry that leaves the pushed entry at the end
addAdapterMetadataEntryNoSort(init, protocolKey, productId, chainKey, fileKey) ==
  IF init.shape # "newMapArray" THEN [err |-> TRUE, init |-> init]
  ELSE IF HasEntry(init.elements,
             GeneratedIdentifier(protocolKey, productId, chainKey, fileKey))
       THEN [err |-> FALSE, init |-> init]
  ELSE [err |-> FALSE,
        init |-> NewMapArray(Append(init.elements,
                   NewMetadataEntry(protocolKey, productId, chainKey, fileKey)))]

\* addAdapterMetadataEntry on the initializer of a MetadataFiles declarator:
\* result [err, init]
addAdapterMetadataEntry(init, protocolKey, productId, chainKey, fileKey) ==
  IF init.shape # "newMapArray" THEN [err |-> TRUE, init |-> init]
  ELSE IF HasEntry(init.elements,
             GeneratedIdentifier(protocolKey, productId, chainKey, fileKey))
       THEN [err |-> FALSE, init |-> init]
  ELSE LET pushed == Append(init.elements,
                       NewMetadataEntry(protocolKey, productId, chainKey, fileKey))
       IN \* the comparator runs on every element once there are two
          IF Len(pushed) >= 2 /\ \E i \in 1..Len(pushed) : ~HasSortKey(pushed[i])
          THEN [err |-> TRUE, init |-> init]
          ELSE [err |-> FALSE, init |-> NewMapArray(sortEntries(pushed))]

\* visitVariableDeclarator over the statements in document order: every
\* declarator named MetadataFiles is edited; the first failure ends the visit
RECURSIVE VisitDeclarators(_, _, _, _, _)
VisitDeclarators(body, protocolKey, productId, chainKey, fileKey) ==
  IF body = << >> THEN [err |-> FALSE, body |-> << >>]
  ELSE LET node == Head(body)
       IN IF node.kind # "decl"
          THEN LET rest == VisitDeclarators(Tail(body), protocolKey, productId,
                                            chainKey, fileKey)
               IN [err |-> rest.err, body |-> << node >> \o rest.body]
          ELSE LET edited == addAdapterMetadataEntry(node.init, protocolKey,
                                productId, chainKey, fileKey)
               IN IF edited.err THEN [err |-> TRUE, body |-> body]
                  ELSE LET rest == VisitDeclarators(Tail(body), protocolKey,
                                      productId, chainKey, fileKey)
                       IN [err |-> rest.err,
                           body |-> << DeclStmt(edited.init) >> \o rest.body]

\* core/utils/writeAndLintFile: what is persisted is the output of the
\* formatting pass over the given text
writeAndLintFile(content) == [content EXCEPT !.formatted = TRUE]

\* recast print(ast): untouched trees are reprinted from their original
\* text, edited trees contain freshly printed nodes
PrintAst(file, newBody) ==
  [syntaxOk |-> TRUE,
   formatted |-> (file.formatted /\ newBody = file.body),
   body |-> newBody]

\* addStaticImport applied to the file on disk: [err, file]; on err the file
\* on disk is the one read
addStaticImport(file, k) ==
  LET protocolKey == FindProtocolKey(k.protocolId)
      chainKey == FindChainKey(k.chainId)
  IN IF ~file.syntaxOk THEN [err |-> TRUE, file |-> file]
     ELSE LET imported == addAdapterMetadataImport(file.body, protocolKey,
                             k.protocolId, k.productId, chainKey, k.chainId,
                             k.fileKey)
          IN IF imported.err THEN [err |-> TRUE, file |-> file]
             ELSE LET visited == VisitDeclarators(imported.body, protocolKey,
                                    k.productId, chainKey, k.fileKey)
                  IN IF visited.err THEN [err |-> TRUE, file |-> file]
                     ELSE [err |-> FALSE,
                           file |-> writeAndLintFile(PrintAst(file, visited.body))]

\* ------------------------------------------------------------------------
\* Metadata payloads and the address validator
\* ------------------------------------------------------------------------
\* A payload is a tree: [t |-> "str", v |-> <string>] or
\* [t |-> "list", v |-> <sequence of trees>] (arrays and object values).
JsonString(s) == [t |-> "str", v |-> s]
JsonList(items) == [t |-> "list", v |-> items]

IsHexDigit(c) == (c >= 48 /\ c <= 57) \/ (c >= 65 /\ c <= 70) \/ (c >= 97 /\ c <= 102)
ToLower(c) == IF c >= 65 /\ c <= 90 THEN c + 32 ELSE c

\* address-shaped: 0x followed by hex digits (their number, 40, is not kept)
IsAddressShaped(s) ==
  /\ Len(s) > 2
  /\ s[1] = 48 /\ s[2] = 120
  /\ \A i \in 3..Len(s) : IsHexDigit(s[i])

\* canonical mixed-case form of an address; the casing, which the real
\* encoding derives from a hash of the digits, is here: letters at odd digit
\* positions in upper case, the others in lower case
ChecksumForm(s) ==
  [i \in 1..Len(s) |->
     IF i <= 2 THEN s[i]
     ELSE IF (i - 2) % 2 = 1 THEN ToUpper(s[i]) ELSE ToLower(s[i])]

\* getMetadataInvalidAddresses: the address-shaped strings of the tree that
\* are not in checksum form, in traversal order
RECURSIVE getMetadataInvalidAddresses(_)
RECURSIVE InvalidAddressesOfList(_)
getMetadataInvalidAddresses(node) ==
  IF node.t = "str"
  THEN IF IsAddressShaped(node.v) /\ ChecksumForm(node.v) # node.v
       THEN << node.v >> ELSE << >>
  ELSE InvalidAddressesOfList(node.v)
InvalidAddressesOfList(items) ==
  IF items = << >> THEN << >>
  ELSE getMetadataInvalidAddresses(Head(items))
         \o InvalidAddressesOfList(Tail(items))

\* "0xAb" (checksum form), "0xab" (lower case), "0xAB" (upper case), "bc"
AddrChecksummed == <<48, 120, 65, 98>>
AddrLower == <<48, 120, 97, 98>>
AddrUpper == <<48, 120, 65, 66>>
PlainText == <<98, 99>>

GoodPayload ==
  JsonList(<< JsonString(AddrChecksummed), JsonList(<< JsonString(PlainText) >>) >>)
BadPayload ==
  JsonList(<< JsonString(AddrLower),
              JsonList(<< JsonString(AddrChecksummed), JsonString(AddrUpper) >>) >>)
Payloads == {GoodPayload, BadPayload}

\* JSON.stringify(metadata, null, 2)
JsonStringify(metadata) == [data |-> metadata, indent |-> 2, formatted |-> FALSE]

\* ------------------------------------------------------------------------
\* Configuration: supportedProtocols and the adapters of each pair
\* ------------------------------------------------------------------------
\* supportedProtocols in the order its keys were inserted; chains of each
\* protocol in the order they are listed
supportedProtocols ==
  << [protocolId |-> ProtoAa, chains |-> <<Optimism, Ethereum>>],
     [protocolId |-> ProtoLi, chains |-> <<Ethereum>>] >>

\* product ids "bc", "b-z", "b_z", "d"; file key "t"
ProductBc == <<98, 99>>
ProductBDashZ == <<98, 45, 122>>
ProductBUnderZ == <<98, 95, 122>>
ProductD == <<100>>
FileKeyT == <<116>>

Adapter(productId, fileKey, version, isBuilder) ==
  [productId |-> productId, fileKey |-> fileKey,
   version |-> version, isBuilder |-> isBuilder]

FirstN(seq, n) == SubSeq(seq, 1, IF Len(seq) < n THEN Len(seq) ELSE n)

\* adaptersController.fetchChainProtocolAdapters(chainId, protocolId)
fetchChainProtocolAdapters(chainId, protocolId) ==
  FirstN(
    IF protocolId = ProtoAa /\ chainId = Ethereum
    THEN << Adapter(ProductBc, FileKeyT, 2, FALSE),
            Adapter(ProductBDashZ, FileKeyT, 1, TRUE),
            Adapter(ProductD, FileKeyT, 2, FALSE) >>
    ELSE IF protocolId = ProtoAa /\ chainId = Optimism
    THEN << Adapter(ProductBc, FileKeyT, 2, TRUE),
            Adapter(ProductD, FileKeyT, 1, FALSE) >>
    ELSE IF protocolId = ProtoLi /\ chainId = Ethereum
    THEN << Adapter(ProductBDashZ, FileKeyT, 2, FALSE),
            Adapter(ProductBUnderZ, FileKeyT, 1, TRUE) >>
    ELSE << >>,
    MaxAdaptersPerPair)

\* Object.entries of an object with integer keys: ascending numeric order
RECURSIVE InsertAscending(_, _)
InsertAscending(sorted, x) ==
  IF sorted = << >> THEN << x >>
  ELSE IF x < Head(sorted) THEN << x >> \o sorted
  ELSE << Head(sorted) >> \o InsertAscending(Tail(sorted), x)

\* variant of IntegerKeyOrder that keeps the keys as they are listed
IntegerKeyOrderAsListed(keys) == keys

RECURSIVE IntegerKeyOrder(_)
IntegerKeyOrder(keys) ==
  IF keys = << >> THEN << >>
  ELSE InsertAscending(IntegerKeyOrder(SubSeq(keys, 1, Len(keys) - 1)),
                       keys[Len(keys)])

\* the (protocol, chain) pairs in the order the two outer loops visit them
RECURSIVE PairsOf(_)
PairsOf(protocols) ==
  IF protocols = << >> THEN << >>
  ELSE LET chains == IntegerKeyOrder(Head(protocols).chains)
       IN [i \in 1..Len(chains) |->
             [protocolId |-> Head(protocols).protocolId, chainId |-> chains[i]]]
          \o PairsOf(Tail(protocols))

Pairs == PairsOf(supportedProtocols)

AllChainIds == {Ethereum, Optimism}

\* the fileDetails an adapter returns with its metadata: its own protocol,
\* product and chain, and the file key of the cached method
FileDetails(pair, adapter) ==
  [protocolId |-> pair.protocolId, productId |-> adapter.productId,
   chainId |-> pair.chainId, fileKey |-> adapter.fileKey]

\* ------------------------------------------------------------------------
\* Registry files the command may find on disk
\* ------------------------------------------------------------------------
\* a key that no adapter of the configuration produces: (li, "q", 1, "t")
ForeignKey ==
  [protocolId |-> ProtoLi, productId |-> <<113>>, chainId |-> Ethereum,
   fileKey |-> FileKeyT]
\* the key of the first adapter of (aa, 1)
KnownKey ==
  [protocolId |-> ProtoAa, productId |-> ProductBc, chainId |-> Ethereum,
   fileKey |-> FileKeyT]

ImportOf(k) == ImportStmt(KeyIdentifier(k), KeyImportPath(k))
EntryOf(k) ==
  NewMetadataEntry(FindProtocolKey(k.protocolId), k.productId,
                   FindChainKey(k.chainId), k.fileKey)
\* import { Chain } from '../constants/chains'
HandImport == ImportStmt(<<67>>, <<99>>)

SourceFile(formatted, body) ==
  [syntaxOk |-> TRUE, formatted |-> formatted, body |-> body]

EmptyRegistry ==
  SourceFile(TRUE, << HandImport, DeclStmt(NewMapArray(<< >>)), CodeStmt(1) >>)
PopulatedRegistry ==
  SourceFile(TRUE, << HandImport, ImportOf(KnownKey), ImportOf(ForeignKey),
                      DeclStmt(NewMapArray(<< EntryOf(KnownKey),
                                              EntryOf(ForeignKey) >>)),
                      CodeStmt(1) >>)
NoDeclarationRegistry ==
  SourceFile(TRUE, << HandImport, CodeStmt(1) >>)
MistypedRegistry ==
  SourceFile(TRUE, << HandImport, DeclStmt(OtherInit), CodeStmt(1) >>)
InterleavedRegistry ==
  SourceFile(FALSE, << HandImport, CodeStmt(1), ImportOf(ForeignKey),
                       DeclStmt(NewMapArray(<< EntryOf(ForeignKey) >>)),
                       CodeStmt(2) >>)
OddElementRegistry ==
  SourceFile(TRUE, << HandImport, DeclStmt(NewMapArray(<< OtherElement >>)) >>)
BareImportRegistry ==
  SourceFile(TRUE, << HandImport, BareImportStmt(<<99>>),
                      DeclStmt(NewMapArray(<< >>)) >>)
HalfRegistered ==
  SourceFile(TRUE, << HandImport, ImportOf(KnownKey),
                      DeclStmt(NewMapArray(<< EntryOf(ForeignKey) >>)) >>)
UnparseableRegistry ==
  [syntaxOk |-> FALSE, formatted |-> FALSE, body |-> << >>]

InitialRegistries ==
  { EmptyRegistry, PopulatedRegistry, NoDeclarationRegistry, MistypedRegistry,
    InterleavedRegistry, OddElementRegistry, BareImportRegistry,
    HalfRegistered, UnparseableRegistry }

\* ------------------------------------------------------------------------
\* State
\* ------------------------------------------------------------------------
VARIABLES
  registry,          \* AdapterMetadata.ts on disk
  artifacts,         \* metadata files on disk: path -> content
  filterProtocolIds, \* [present, ids]: result of multiProtocolFilter
  filterChainIds,    \* [present, ids]: result of multiChainFilter
  chainProviders,    \* chains that have a provider
  outputs,           \* what each adapter capability answers, once asked
  run,               \* number of the current run of the command
  pc,                \* position of the command
  pairIdx,           \* index into Pairs (the two outer loops)
  adapterIdx,        \* index into the adapters of the pair (inner loop)
  metadataDetails,   \* << >> (undefined) or << [metadata, fileDetails] >>
  invoked,           \* capability calls made in this run, in order
  written,           \* artifact writes completed in this run, in order
  registered,        \* registry writes completed in this run, in order
  stderr,            \* lines printed to standard error in this run
  lastError,         \* error that ended the run, "" if none
  previousRun,       \* << >> or << files as the previous run left them >>
  contents           \* << >> or << the registry as addStaticImport read it >>

vars ==
  << registry, artifacts, filterProtocolIds, filterChainIds, chainProviders,
     outputs, run, pc, pairIdx, adapterIdx, metadataDetails, invoked, written,
     registered, stderr, lastError, previousRun, contents >>

config == << filterProtocolIds, filterChainIds, chainProviders >>
files == << registry, artifacts >>
history == << invoked, written, registered, stderr >>

NoFilter == [present |-> FALSE, ids |-> {}]
Filter(ids) == [present |-> TRUE, ids |-> ids]

\* variant of the filter test without the negation
FilteredOutInverted(filter, id) == filter.present /\ id \in filter.ids

\* filter && !filter.includes(id)
FilteredOut(filter, id) == filter.present /\ id \notin filter.ids

\* what a capability call can do: throw NotImplementedError, throw another
\* error, or return metadata
NotImplementedError == [kind |-> "notImplemented"]
OtherError == [kind |-> "error"]
Returns(metadata) == [kind |-> "metadata", metadata |-> metadata]
Outcomes == {NotImplementedError, OtherError} \cup {Returns(m) : m \in Payloads}

CurrentPair == Pairs[pairIdx]
CurrentAdapters ==
  fetchChainProtocolAdapters(CurrentPair.chainId, CurrentPair.protocolId)
CurrentAdapter == CurrentAdapters[adapterIdx]
AdapterId == << pairIdx, adapterIdx >>

NoFiles == [p \in {} |-> p]

Init ==
  /\ registry \in InitialRegistries
  /\ artifacts = NoFiles
  /\ filterProtocolIds \in {NoFilter, Filter({ProtoAa}), Filter({ProtoLi})}
  /\ filterChainIds \in {NoFilter, Filter({Ethereum}), Filter({Optimism})}
  /\ chainProviders \in {AllChainIds, {Ethereum}}
  /\ outputs = NoFiles
  /\ run = 1
  /\ pc = "pair"
  /\ pairIdx = 1
  /\ adapterIdx = 1
  /\ metadataDetails = << >>
  /\ invoked = << >>
  /\ written = << >>
  /\ registered = << >>
  /\ stderr = << >>
  /\ lastError = ""
  /\ previousRun = << >>
  /\ contents = << >>

\* ------------------------------------------------------------------------
\* The build-metadata command: one action per awaited step of the loop
\* ------------------------------------------------------------------------
Terminated == pc \in {"done", "aborted", "failed"}

\* variant of NextPair that looks for the provider before the chain filter
NextPairProviderFirst ==
  /\ pc = "pair"
  /\ IF pairIdx > Len(Pairs)
     THEN /\ pc' = "done"
          /\ UNCHANGED << pairIdx, adapterIdx, lastError >>
     ELSE IF FilteredOut(filterProtocolIds, CurrentPair.protocolId)
     THEN /\ pairIdx' = pairIdx + 1
          /\ UNCHANGED << pc, adapterIdx, lastError >>
     ELSE IF CurrentPair.chainId \notin chainProviders
     THEN /\ pc' = "failed"
          /\ lastError' = "ProviderMissingError"
          /\ UNCHANGED << pairIdx, adapterIdx >>
     ELSE IF FilteredOut(filterChainIds, CurrentPair.chainId)
     THEN /\ pairIdx' = pairIdx + 1
          /\ UNCHANGED << pc, adapterIdx, lastError >>
     ELSE /\ pc' = "adapter"
          /\ adapterIdx' = 1
          /\ UNCHANGED << pairIdx, lastError >>
  /\ UNCHANGED << config, files, outputs, run, metadataDetails, history,
                  previousRun, contents >>

\* the two outer loops: filters, provider lookup, adapters of the pair
NextPair ==
  /\ pc = "pair"
  /\ IF pairIdx > Len(Pairs)
     THEN /\ pc' = "done"
          /\ UNCHANGED << pairIdx, adapterIdx, lastError >>
     ELSE IF \/ FilteredOut(filterProtocolIds, CurrentPair.protocolId)
             \/ FilteredOut(filterChainIds, CurrentPair.chainId)
     THEN /\ pairIdx' = pairIdx + 1
          /\ UNCHANGED << pc, adapterIdx, lastError >>
     ELSE IF CurrentPair.chainId \notin chainProviders
     THEN /\ pc' = "failed"
          /\ lastError' = "ProviderMissingError"
          /\ UNCHANGED << pairIdx, adapterIdx >>
     ELSE /\ pc' = "adapter"
          /\ adapterIdx' = 1
          /\ UNCHANGED << pairIdx, lastError >>
  /\ UNCHANGED << config, files, outputs, run, metadataDetails, history,
                  previousRun, contents >>

\* variant of NextAdapter that leaves the loop one adapter early
NextAdapterStopsEarly ==
  /\ pc = "adapter"
  /\ IF adapterIdx > Len(CurrentAdapters) - 1 /\ adapterIdx > 1
     THEN /\ pairIdx' = pairIdx + 1
          /\ pc' = "pair"
          /\ UNCHANGED metadataDetails
     ELSE IF adapterIdx > Len(CurrentAdapters)
     THEN /\ pairIdx' = pairIdx + 1
          /\ pc' = "pair"
          /\ UNCHANGED metadataDetails
     ELSE /\ metadataDetails' = << >>
          /\ pc' = "tokens"
          /\ UNCHANGED pairIdx
  /\ UNCHANGED << config, files, outputs, run, adapterIdx, history, lastError,
                  previousRun, contents >>

\* head of the loop over the adapters of the pair
NextAdapter ==
  /\ pc = "adapter"
  /\ IF adapterIdx > Len(CurrentAdapters)
     THEN /\ pairIdx' = pairIdx + 1
          /\ pc' = "pair"
          /\ UNCHANGED metadataDetails
     ELSE /\ metadataDetails' = << >>
          /\ pc' = "tokens"
          /\ UNCHANGED pairIdx
  /\ UNCHANGED << config, files, outputs, run, adapterIdx, history, lastError,
                  previousRun, contents >>

\* a capability call: the adapter answers as it did before, if it was asked
Answers(capability, outcome) ==
  LET call == << pairIdx, adapterIdx, capability >>
  IN /\ outcome \in Outcomes
     /\ call \in DOMAIN outputs => outcome = outputs[call]
     /\ outputs' = (call :> outcome) @@ outputs
     /\ invoked' = Append(invoked, call)

\* variant of the catch handler that turns every error into undefined
SettleCatchAll(outcome, next) ==
  /\ pc' = next
  /\ UNCHANGED lastError
  /\ metadataDetails' =
       IF outcome.kind # "metadata" THEN << >>
       ELSE << [metadata |-> outcome.metadata,
                fileDetails |-> FileDetails(CurrentPair, CurrentAdapter)] >>

\* variant without a catch handler: every error ends the run
SettleNoCatch(outcome, next) ==
  IF outcome.kind # "metadata"
  THEN /\ pc' = "failed"
       /\ lastError' = "AdapterError"
       /\ UNCHANGED metadataDetails
  ELSE /\ pc' = next
       /\ UNCHANGED lastError
       /\ metadataDetails' =
            << [metadata |-> outcome.metadata,
                fileDetails |-> FileDetails(CurrentPair, CurrentAdapter)] >>

\* the catch handler of both calls: NotImplementedError gives undefined, any
\* other error is thrown again; a result is the metadata with its fileDetails
Settle(outcome, next) ==
  IF outcome.kind = "error"
  THEN /\ pc' = "failed"
       /\ lastError' = "AdapterError"
       /\ UNCHANGED metadataDetails
  ELSE /\ pc' = next
       /\ UNCHANGED lastError
       /\ metadataDetails' =
            IF outcome.kind = "notImplemented" THEN << >>
            ELSE << [metadata |-> outcome.metadata,
                     fileDetails |-> FileDetails(CurrentPair, CurrentAdapter)] >>

\* if (adapter.adapterSettings.version === 2) await getProtocolTokens(true)
CallGetProtocolTokens ==
  /\ pc = "tokens"
  /\ IF CurrentAdapter.version = 2
     THEN \E outcome \in Outcomes :
            /\ Answers("getProtocolTokens", outcome)
            /\ Settle(outcome, "build")
     ELSE /\ pc' = "build"
          /\ UNCHANGED << outputs, invoked, metadataDetails, lastError >>
  /\ UNCHANGED << config, files, run, pairIdx, adapterIdx, written, registered,
                  stderr, previousRun, contents >>

\* variant of CallBuildMetadata that keeps the result of getProtocolTokens
\* when buildMetadata is not implemented
CallBuildMetadataKeepsTokens ==
  /\ pc = "build"
  /\ IF CurrentAdapter.isBuilder
     THEN \E outcome \in Outcomes :
            /\ Answers("buildMetadata", outcome)
            /\ IF outcome.kind = "notImplemented" /\ metadataDetails # << >>
               THEN /\ pc' = "check"
                    /\ UNCHANGED << metadataDetails, lastError >>
               ELSE Settle(outcome, "check")
     ELSE /\ pc' = "check"
          /\ UNCHANGED << outputs, invoked, metadataDetails, lastError >>
  /\ UNCHANGED << config, files, run, pairIdx, adapterIdx, written, registered,
                  stderr, previousRun, contents >>

\* if (isIMetadataBuilder(adapter)) await adapter.buildMetadata(true)
CallBuildMetadata ==
  /\ pc = "build"
  /\ IF CurrentAdapter.isBuilder
     THEN \E outcome \in Outcomes :
            /\ Answers("buildMetadata", outcome)
            /\ Settle(outcome, "check")
     ELSE /\ pc' = "check"
          /\ UNCHANGED << outputs, invoked, metadataDetails, lastError >>
  /\ UNCHANGED << config, files, run, pairIdx, adapterIdx, written, registered,
                  stderr, previousRun, contents >>

\* variant of the checksum gate that prints the first offending value only
CheckMetadataFirstOnly ==
  /\ pc = "check"
  /\ IF metadataDetails = << >>
     THEN /\ adapterIdx' = adapterIdx + 1
          /\ pc' = "adapter"
          /\ UNCHANGED stderr
     ELSE LET invalidAddresses ==
                getMetadataInvalidAddresses(metadataDetails[1].metadata)
          IN IF Len(invalidAddresses) > 0
             THEN /\ stderr' = Append(stderr, << invalidAddresses[1] >>)
                  /\ pc' = "aborted"
                  /\ UNCHANGED adapterIdx
             ELSE /\ pc' = "write"
                  /\ UNCHANGED << adapterIdx, stderr >>
  /\ UNCHANGED << config, files, outputs, run, pairIdx, metadataDetails,
                  invoked, written, registered, lastError, previousRun, contents >>

\* variant of the checksum gate that goes on with the next adapter
CheckMetadataContinue ==
  /\ pc = "check"
  /\ IF metadataDetails = << >>
     THEN /\ adapterIdx' = adapterIdx + 1
          /\ pc' = "adapter"
          /\ UNCHANGED stderr
     ELSE LET invalidAddresses ==
                getMetadataInvalidAddresses(metadataDetails[1].metadata)
          IN IF Len(invalidAddresses) > 0
             THEN /\ stderr' = Append(stderr, invalidAddresses)
                  /\ adapterIdx' = adapterIdx + 1
                  /\ pc' = "adapter"
             ELSE /\ pc' = "write"
                  /\ UNCHANGED << adapterIdx, stderr >>
  /\ UNCHANGED << config, files, outputs, run, pairIdx, metadataDetails,
                  invoked, written, registered, lastError, previousRun, contents >>

\* variant of CheckMetadata that goes on to the registration without the
\* write of the artifact
CheckMetadataSkipsWrite ==
  /\ pc = "check"
  /\ IF metadataDetails = << >>
     THEN /\ adapterIdx' = adapterIdx + 1
          /\ pc' = "adapter"
          /\ UNCHANGED stderr
     ELSE LET invalidAddresses ==
                getMetadataInvalidAddresses(metadataDetails[1].metadata)
          IN IF Len(invalidAddresses) > 0
             THEN /\ stderr' = Append(stderr, invalidAddresses)
                  /\ pc' = "aborted"
                  /\ UNCHANGED adapterIdx
             ELSE /\ pc' = "register"
                  /\ UNCHANGED << adapterIdx, stderr >>
  /\ UNCHANGED << config, files, outputs, run, pairIdx, metadataDetails,
                  invoked, written, registered, lastError, previousRun, contents >>

\* if (!metadataDetails) continue; the checksum gate: print and return
CheckMetadata ==
  /\ pc = "check"
  /\ IF metadataDetails = << >>
     THEN /\ adapterIdx' = adapterIdx + 1
          /\ pc' = "adapter"
          /\ UNCHANGED stderr
     ELSE LET invalidAddresses ==
                getMetadataInvalidAddresses(metadataDetails[1].metadata)
          IN IF Len(invalidAddresses) > 0
             THEN /\ stderr' = Append(stderr, invalidAddresses)
                  /\ pc' = "aborted"
                  /\ UNCHANGED adapterIdx
             ELSE /\ pc' = "write"
                  /\ UNCHANGED << adapterIdx, stderr >>
  /\ UNCHANGED << config, files, outputs, run, pairIdx, metadataDetails,
                  invoked, written, registered, lastError, previousRun, contents >>

\* await writeMetadataToFile({ ...fileDetails, metadata })
\* variant of WriteMetadataToFile: the loop goes on to the next adapter
\* without waiting for the registration of this one
WriteMetadataToFileDetached ==
  /\ pc = "write"
  /\ LET fileDetails == metadataDetails[1].fileDetails
         newFilePath == ArtifactPath(fileDetails.protocolId,
                          fileDetails.productId, fileDetails.chainId,
                          fileDetails.fileKey)
     IN /\ artifacts' =
             (newFilePath :>
                writeAndLintFile(JsonStringify(metadataDetails[1].metadata)))
             @@ artifacts
        /\ written' = Append(written, [adapter |-> AdapterId,
                                       key |-> fileDetails,
                                       path |-> newFilePath])
  /\ pc' = "adapter"
  /\ adapterIdx' = adapterIdx + 1
  /\ UNCHANGED << config, registry, outputs, run, pairIdx,
                  metadataDetails, invoked, registered, stderr, lastError,
                  previousRun, contents >>

WriteMetadataToFile ==
  /\ pc = "write"
  /\ LET fileDetails == metadataDetails[1].fileDetails
         newFilePath == ArtifactPath(fileDetails.protocolId,
                          fileDetails.productId, fileDetails.chainId,
                          fileDetails.fileKey)
     IN /\ artifacts' =
             (newFilePath :>
                writeAndLintFile(JsonStringify(metadataDetails[1].metadata)))
             @@ artifacts
        /\ written' = Append(written, [adapter |-> AdapterId,
                                       key |-> fileDetails,
                                       path |-> newFilePath])
  /\ pc' = "register"
  /\ UNCHANGED << config, registry, outputs, run, pairIdx, adapterIdx,
                  metadataDetails, invoked, registered, stderr, lastError,
                  previousRun, contents >>

\* await addStaticImport(fileDetails)
\* variant of ReadRegistry: the text read by the first registration of the
\* run is kept and reused by the later ones
ReadRegistryOnce ==
  /\ pc = "register"
  /\ contents' = IF contents = << >> THEN << registry >> ELSE contents
  /\ pc' = "edit"
  /\ UNCHANGED << config, files, outputs, run, pairIdx, adapterIdx,
                  metadataDetails, history, lastError, previousRun >>

\* line 212: const contents = await fs.readFile(adapterMetadataFile, 'utf-8')
ReadRegistry ==
  /\ pc = "register"
  /\ contents' = << registry >>
  /\ pc' = "edit"
  /\ UNCHANGED << config, files, outputs, run, pairIdx, adapterIdx,
                  metadataDetails, history, lastError, previousRun >>

\* variant of AddStaticImport: the file is also written between the two edits
AddStaticImportWriteThrough ==
  /\ pc = "edit"
  /\ LET k == metadataDetails[1].fileDetails
         result == addStaticImport(contents[1], k)
         imported == addAdapterMetadataImport(contents[1].body,
                       FindProtocolKey(k.protocolId), k.protocolId,
                       k.productId, FindChainKey(k.chainId), k.chainId,
                       k.fileKey)
     IN IF result.err
        THEN /\ pc' = "failed"
             /\ lastError' = "RegistryError"
             /\ registry' = IF contents[1].syntaxOk /\ ~imported.err
                            THEN writeAndLintFile(
                                   PrintAst(contents[1], imported.body))
                            ELSE registry
             /\ UNCHANGED << registered, adapterIdx >>
        ELSE /\ registry' = result.file
             /\ registered' = Append(registered, [adapter |-> AdapterId,
                                                  key |-> k])
             /\ adapterIdx' = adapterIdx + 1
             /\ pc' = "adapter"
             /\ UNCHANGED lastError
  /\ UNCHANGED << config, artifacts, outputs, run, pairIdx, metadataDetails,
                  invoked, written, stderr, previousRun, contents >>

\* lines 213-263: parse what was read, apply the two edits, write the file
\* (no await between the parse and the call of writeAndLintFile)
AddStaticImport ==
  /\ pc = "edit"
  /\ LET result == addStaticImport(contents[1],
                                   metadataDetails[1].fileDetails)
     IN IF result.err
        THEN /\ pc' = "failed"
             /\ lastError' = "RegistryError"
             /\ UNCHANGED << registry, registered, adapterIdx >>
        ELSE /\ registry' = result.file
             /\ registered' = Append(registered,
                                     [adapter |-> AdapterId,
                                      key |-> metadataDetails[1].fileDetails])
             /\ adapterIdx' = adapterIdx + 1
             /\ pc' = "adapter"
             /\ UNCHANGED lastError
  /\ UNCHANGED << config, artifacts, outputs, run, pairIdx, metadataDetails,
                  invoked, written, stderr, previousRun, contents >>

\* the command is run again, with the same options, on the files it left
StartNextRun ==
  /\ Terminated
  /\ run < MaxRuns
  /\ run' = run + 1
  /\ previousRun' = << [registry |-> registry, artifacts |-> artifacts] >>
  /\ pc' = "pair"
  /\ pairIdx' = 1
  /\ adapterIdx' = 1
  /\ metadataDetails' = << >>
  /\ invoked' = << >>
  /\ written' = << >>
  /\ registered' = << >>
  /\ stderr' = << >>
  /\ lastError' = ""
  /\ contents' = << >>
  /\ UNCHANGED << config, files, outputs >>

Next ==
  \/ NextPair
  \/ NextAdapter
  \/ CallGetProtocolTokens
  \/ CallBuildMetadata
  \/ CheckMetadata
  \/ WriteMetadataToFile
  \/ ReadRegistry
  \/ AddStaticImport
  \/ StartNextRun

Spec == Init /\ [][Next]_vars

\* the steps of a run up to the read of the registry file
RunStep ==
  \/ NextPair
  \/ NextAdapter
  \/ CallGetProtocolTokens
  \/ CallBuildMetadata
  \/ CheckMetadata
  \/ WriteMetadataToFile
  \/ ReadRegistry

\* every awaited step of the loop completes: the command goes on as long as
\* it has a step to take (whether it is run again is up to its user).  The
\* last conjunct is weak fairness of AddStaticImport, which is enabled
\* exactly when pc = "edit" and always leaves that position, written out.
FairSpec ==
  /\ Spec
  /\ WF_vars(RunStep)
  /\ []<>(pc # "edit")

\* ------------------------------------------------------------------------
\* The command next to another writer of the registry file
\* ------------------------------------------------------------------------
\* what somebody else may do to the file (read from disk again at line 212
\* by every invocation): add a statement by hand, or register ForeignKey
ExternalEdits(file) ==
  { [file EXCEPT !.body = Append(file.body, CodeStmt(3)), !.formatted = FALSE],
    addStaticImport(file, ForeignKey).file }

\* the file has changed on disk since the last invocation of addStaticImport
\* when the next one is about to read it
ExternalChange ==
  /\ pc = "register"
  /\ registry.syntaxOk
  /\ CodeStmt(3) \notin {registry.body[i] : i \in 1..Len(registry.body)}
  /\ \E f \in ExternalEdits(registry) :
        /\ f # registry
        /\ registry' = f
  /\ UNCHANGED << config, artifacts, outputs, run, pc, pairIdx, adapterIdx,
                  metadataDetails, history, lastError, previousRun, contents >>

\* the runs without filters, on the registries that parse and are well typed
ExternalInit ==
  /\ Init
  /\ filterProtocolIds = NoFilter
  /\ filterChainIds = NoFilter
  /\ chainProviders = AllChainIds
  /\ registry \in {EmptyRegistry, InterleavedRegistry}

ExternalSpec == ExternalInit /\ [][Next \/ ExternalChange]_vars

\* the keys the adapters of the configuration produce, and one more
RegistrationKeys ==
  UNION { {FileDetails(Pairs[p],
             fetchChainProtocolAdapters(Pairs[p].chainId, Pairs[p].protocolId)[a]) :
           a \in 1..Len(fetchChainProtocolAdapters(Pairs[p].chainId,
                                                   Pairs[p].protocolId))} :
          p \in 1..Len(Pairs) }
  \cup {ForeignKey}

\* ------------------------------------------------------------------------
\* The source transformer on its own: addStaticImport applied to the file on
\* disk for keys taken in any order
\* ------------------------------------------------------------------------
RegistryInit ==
  /\ registry \in InitialRegistries
  /\ artifacts = NoFiles
  /\ filterProtocolIds = NoFilter
  /\ filterChainIds = NoFilter
  /\ chainProviders = AllChainIds
  /\ outputs = NoFiles
  /\ run = 1
  /\ pc = "register"
  /\ pairIdx = 1
  /\ adapterIdx = 1
  /\ metadataDetails = << >>
  /\ invoked = << >>
  /\ written = << >>
  /\ registered = << >>
  /\ stderr = << >>
  /\ lastError = ""
  /\ previousRun = << >>
  /\ contents = << >>

RegisterKey ==
  /\ pc = "register"
  /\ Len(registered) < MaxRegistrations
  /\ \E k \in RegistrationKeys :
       LET result == addStaticImport(registry, k)
       IN IF result.err
          THEN /\ lastError' = "RegistryError"
               /\ UNCHANGED << registry, registered >>
          ELSE /\ registry' = result.file
               /\ registered' = Append(registered, [adapter |-> << 0, 0 >>,
                                                    key |-> k])
               /\ lastError' = ""
  /\ UNCHANGED << config, artifacts, outputs, run, pc, pairIdx, adapterIdx,
                  metadataDetails, invoked, written, stderr, previousRun, contents >>

RegistrySpec == RegistryInit /\ [][RegisterKey]_vars

\* ------------------------------------------------------------------------
\* Vocabulary of the properties
\* ------------------------------------------------------------------------
Range(seq) == {seq[i] : i \in 1..Len(seq)}
Last(seq) == seq[Len(seq)]

ImportsOf(file) == SelectSeq(file.body, IsImportDeclaration)

\* the arrays of the well-typed MetadataFiles declarations of a file
IsTypedDeclaration(node) == node.kind = "decl" /\ node.init.shape = "newMapArray"
ArraysOf(file) ==
  LET typed == SelectSeq(file.body, IsTypedDeclaration)
  IN [i \in 1..Len(typed) |-> typed[i].init.elements]

\* a MetadataFiles declaration whose initializer is not `new X([...])`
Mistyped(file) ==
  /\ file.syntaxOk
  /\ \E i \in 1..Len(file.body) :
       file.body[i].kind = "decl" /\ file.body[i].init.shape # "newMapArray"

\* an import of a metadata artifact, as opposed to a hand-written import
IsArtifactImport(node) ==
  /\ node.kind = "import" /\ node.hasSpecifier
  /\ Len(node.source) >= 3 /\ SubSeq(node.source, 1, 3) = <<46, 46, 47>>

GeneratedImportIdentifiers(file) ==
  {file.body[i].local : i \in {j \in 1..Len(file.body) : IsArtifactImport(file.body[j])}}

EntryValues(file) ==
  UNION { {a[i].value : i \in {j \in 1..Len(a) : a[j].kind = "pair"}} :
          a \in Range(ArraysOf(file)) }

\* no identifier bound by two imports, none the value of two entries of an array
NoDuplicateImports(file) ==
  \A i, j \in 1..Len(file.body) :
     (i # j /\ IsArtifactImport(file.body[i]) /\ IsArtifactImport(file.body[j]))
        => file.body[i].local # file.body[j].local
NoDuplicateEntries(file) ==
  \A a \in Range(ArraysOf(file)) :
     \A i, j \in 1..Len(a) :
        (i # j /\ a[i].kind = "pair" /\ a[j].kind = "pair")
           => a[i].value # a[j].value

\* the file left on disk by addStaticImport(A) followed by addStaticImport(B)
RegisterBoth(file, A, B) ==
  addStaticImport(addStaticImport(file, A).file, B).file

AdapterOf(call) ==
  fetchChainProtocolAdapters(Pairs[call[1]].chainId,
                             Pairs[call[1]].protocolId)[call[2]]
PairPasses(p) ==
  /\ filterProtocolIds.present => Pairs[p].protocolId \in filterProtocolIds.ids
  /\ filterChainIds.present => Pairs[p].chainId \in filterChainIds.ids

\* ------------------------------------------------------------------------
\* Properties
\* ------------------------------------------------------------------------

\* C1: idempotence of the build.  When a run of the command has ended and a
\* run with the same adapter outputs went before it, the registry file and
\* every artifact file are as the previous run left them; no generated
\* identifier is bound by two imports or is the value of two map entries.
BuildIsIdempotent ==
  /\ (Terminated /\ previousRun # << >>) =>
        /\ registry = previousRun[1].registry
        /\ artifacts = previousRun[1].artifacts
  /\ NoDuplicateImports(registry)
  /\ NoDuplicateEntries(registry)

\* a second run that has written and registered two artifacts again
SecondRunRegisteredAgain ==
  /\ run = 2 /\ pc = "done"
  /\ Len(written) >= 2 /\ Len(registered) >= 2

SameUpToNewImportOrder(f, g, A, B) ==
  /\ f.syntaxOk = g.syntaxOk
  /\ f.formatted = g.formatted
  /\ Len(f.body) = Len(g.body)
  /\ \A i \in 1..Len(f.body) :
        \/ f.body[i] = g.body[i]
        \/ {f.body[i], g.body[i]} = {ImportOf(A), ImportOf(B)}

GateFindings ==
  IF pc = "check" /\ metadataDetails # << >>
  THEN getMetadataInvalidAddresses(metadataDetails[1].metadata)
  ELSE << >>

\* C3: checksum gate, current artifact.  When the validator returns a
\* non-empty list for the payload of an adapter, that step writes no artifact
\* and no registry, does not go on to the write or the registration of the
\* adapter, and prints every value the validator returned; no artifact
\* written by a run holds a value the validator rejects.
ChecksumGateStopsArtifact ==
  /\ [][ Len(GateFindings) > 0 =>
           /\ UNCHANGED << files, written, registered >>
           /\ stderr' = Append(stderr, GateFindings)
           /\ pc' \notin {"write", "register"} ]_vars
  /\ [](\A w \in Range(written) :
           /\ w.path \in DOMAIN artifacts
           /\ getMetadataInvalidAddresses(artifacts[w.path].data) = << >>)

\* a run stopped by the gate with two offending values printed
GateReportedAll ==
  /\ pc = "aborted"
  /\ stderr # << >>
  /\ Len(Last(stderr)) >= 2
  /\ \A w \in Range(written) : w.adapter # AdapterId

\* adapters after the current one that the filters let through
LaterAdaptersExist ==
  \/ adapterIdx < Len(CurrentAdapters)
  \/ \E p \in (pairIdx + 1)..Len(Pairs) :
        /\ PairPasses(p)
        /\ Pairs[p].chainId \in chainProviders
        /\ fetchChainProtocolAdapters(Pairs[p].chainId, Pairs[p].protocolId) # << >>

\* C4: checksum gate, whole run.  Once a payload has failed validation in a
\* run, no capability is invoked, no artifact written and no registration
\* made in the rest of that run, and the files stay as the adapters
\* processed before left them (the failing step included).
ChecksumGateStopsRun ==
  /\ [][ stderr # << >> =>
           /\ UNCHANGED files
           /\ run' = run => UNCHANGED << invoked, written, registered, outputs >> ]_vars
  /\ [][ (stderr = << >> /\ stderr' # << >>) => UNCHANGED files ]_vars

\* a run stopped by the gate after a registration, with adapters left over
GateStoppedMidRun ==
  /\ pc = "aborted"
  /\ registered # << >>
  /\ pairIdx <= Len(Pairs)
  /\ LaterAdaptersExist

\* C5 as stated: structural gate.  While the MetadataFiles initializer is
\* mistyped, processing an adapter with a valid payload changes neither the
\* registry file nor an artifact file, and its registration ends the run.
StructuralGateMutatesNoFile ==
  [][ Mistyped(registry) =>
        /\ UNCHANGED files
        /\ pc = "edit" => (pc' = "failed" \/ UNCHANGED vars) ]_vars

KeyPasses(k) ==
  /\ filterProtocolIds.present => k.protocolId \in filterProtocolIds.ids
  /\ filterChainIds.present => k.chainId \in filterChainIds.ids

\* C6: filter correctness.  Every capability call of a run belongs to a
\* pair that both filters let through, every artifact written and every key
\* registered carries a protocolId and a chainId that the filters let
\* through, and a pair is skipped only when a filter that is present
\* leaves it out.
FiltersRespected ==
  /\ [](/\ \A c \in Range(invoked) : PairPasses(c[1])
        /\ \A w \in Range(written) : KeyPasses(w.key)
        /\ \A r \in Range(registered) : KeyPasses(r.key))
  /\ [][ (pc = "pair" /\ run' = run /\ pairIdx' = pairIdx + 1)
           => ~PairPasses(pairIdx) ]_vars

\* a finished run under a protocol filter and no chain filter that
\* registered artifacts on two chains and skipped a pair
FilteredRunCompleted ==
  /\ pc = "done"
  /\ filterProtocolIds.present /\ ~filterChainIds.present
  /\ \E r1, r2 \in Range(registered) : r1.key.chainId # r2.key.chainId
  /\ \E p \in 1..Len(Pairs) : ~PairPasses(p)

\* the last capability call of the run threw an error other than
\* NotImplementedError
FailedCall == invoked # << >> /\ outputs[Last(invoked)] = OtherError
FailedAdapter == << Last(invoked)[1], Last(invoked)[2] >>

Committed(r) ==
  /\ KeyIdentifier(r.key) \in GeneratedImportIdentifiers(registry)
  /\ \A a \in Range(ArraysOf(registry)) : HasEntry(a, KeyIdentifier(r.key))

\* C7: partial-failure isolation.  When the call of the k-th adapter fails
\* with an error other than NotImplementedError, the failing step and every
\* later step leave the files alone and the run makes no further call, write
\* or registration; nothing was written or registered for adapter k, and the
\* artifacts and registry entries of the adapters before it are in place.
PartialFailureIsolation ==
  /\ [][ FailedCall =>
           /\ UNCHANGED files
           /\ run' = run => UNCHANGED << invoked, written, registered >> ]_vars
  /\ [][ (run' = run /\ invoked' # invoked /\ outputs'[Last(invoked')] = OtherError)
           => UNCHANGED << files, written, registered >> ]_vars
  /\ [](FailedCall =>
          /\ \A w \in Range(written) :
                w.adapter # FailedAdapter /\ w.path \in DOMAIN artifacts
          /\ \A r \in Range(registered) :
                r.adapter # FailedAdapter /\ Committed(r))

\* the third adapter or a later one failed, with adapters left over
ThirdAdapterFailed ==
  /\ pc = "failed" /\ lastError = "AdapterError"
  /\ Len(registered) >= 2
  /\ LaterAdaptersExist

\* a step that makes a capability call, and what the call did
CallMade == run' = run /\ invoked' # invoked
CallOutcome == outputs'[Last(invoked')]

CallsOf(adapterId) ==
  {c \in Range(invoked) : << c[1], c[2] >> = adapterId}

\* C8 as stated: when a capability call of an adapter fails with
\* NotImplementedError, nothing is written or registered for that adapter and
\* the run goes on; any other failure of the call ends the run.
NotImplementedWritesNothing ==
  /\ [](\A x \in Range(written) \cup Range(registered) :
           \A c \in CallsOf(x.adapter) : outputs[c] # NotImplementedError)
  /\ [][ (CallMade /\ CallOutcome = NotImplementedError)
           => (pc' \in {"build", "check"} /\ UNCHANGED << files, lastError >>) ]_vars
  /\ [][ (CallMade /\ CallOutcome = OtherError) => pc' = "failed" ]_vars

\* the call whose result is the one examined: buildMetadata when the adapter
\* exposes it, getProtocolTokens otherwise
DecidingCall(adapterId) ==
  << adapterId[1], adapterId[2],
     IF AdapterOf(adapterId).isBuilder THEN "buildMetadata"
     ELSE "getProtocolTokens" >>

\* C8 amended: a NotImplementedError of either call is caught, changes no
\* file and lets the run go on; when the deciding call of an adapter
\* (buildMetadata if exposed, getProtocolTokens otherwise) fails with it,
\* nothing is written or registered for the adapter and the next adapter
\* follows, whereas a NotImplementedError of getProtocolTokens is superseded
\* by the result of a buildMetadata the adapter also exposes; any other
\* failure of a call ends the run.
NotImplementedRecoveredLocally ==
  /\ [](\A x \in Range(written) \cup Range(registered) :
           /\ DecidingCall(x.adapter) \in DOMAIN outputs
           /\ outputs[DecidingCall(x.adapter)].kind = "metadata")
  /\ [][ (CallMade /\ CallOutcome = NotImplementedError)
           => /\ pc' \in {"build", "check"}
              /\ metadataDetails' = << >>
              /\ UNCHANGED << files, lastError, written, registered >> ]_vars
  /\ [][ (pc = "check" /\ metadataDetails = << >>)
           => \/ UNCHANGED vars
              \/ /\ pc' = "adapter"
                 /\ adapterIdx' = adapterIdx + 1
                 /\ UNCHANGED << files, written, registered, lastError >> ]_vars
  /\ [][ (CallMade /\ CallOutcome = OtherError)
           => (pc' = "failed" /\ UNCHANGED files) ]_vars

\* an adapter whose deciding call failed with NotImplementedError, with
\* nothing written for it, followed by a call of another adapter
RunWentOnAfterNotImplemented ==
  \E i \in 1..Len(invoked) :
     /\ outputs[invoked[i]] = NotImplementedError
     /\ invoked[i] = DecidingCall(<< invoked[i][1], invoked[i][2] >>)
     /\ \A w \in Range(written) : w.adapter # << invoked[i][1], invoked[i][2] >>
     /\ \E j \in (i + 1)..Len(invoked) :
           << invoked[j][1], invoked[j][2] >> # << invoked[i][1], invoked[i][2] >>

\* the file declares a well-typed MetadataFiles array, and the identifiers
\* of its artifact imports are exactly the values of the array entries
Consistent(file) ==
  /\ ArraysOf(file) # << >>
  /\ GeneratedImportIdentifiers(file) = EntryValues(file)

Ascending(a) ==
  \A i, j \in 1..Len(a) :
     (i < j /\ a[i].kind = "pair" /\ a[j].kind = "pair")
        => CompareStrings(a[i].value, a[j].value) < 0

\* C10: sortedness.  After every registration the elements of each
\* MetadataFiles array are in ascending case-sensitive order of their
\* generated identifiers, in whatever order the keys were registered.
EntriesStaySorted ==
  registered # << >> => \A a \in Range(ArraysOf(registry)) : Ascending(a)

PositionOf(a, identifier) ==
  CHOOSE i \in 1..Len(a) : a[i].kind = "pair" /\ a[i].value = identifier

\* two keys registered in descending order of their identifiers, which
\* differ in the case of a letter, stand in ascending order in the array
RegisteredOutOfOrder ==
  /\ Len(registered) >= 2
  /\ ArraysOf(registry) # << >>
  /\ LET a == ArraysOf(registry)[1]
         first == KeyIdentifier(registered[1].key)
         second == KeyIdentifier(registered[2].key)
     IN /\ HasEntry(a, first) /\ HasEntry(a, second)
        /\ PositionOf(a, second) < PositionOf(a, first)
        /\ \E i \in 1..Len(first) :
              /\ i <= Len(second)
              /\ SubSeq(first, 1, i - 1) = SubSeq(second, 1, i - 1)
              /\ IsLower(first[i]) /\ ~IsLower(second[i])

TemplatePath(k) ==
  <<47>> \o k.protocolId \o <<47>> \o k.productId \o <<47>>
         \o ChainName[k.chainId] \o <<46>> \o k.fileKey
TemplateIdentifier(k) ==
  LET protocolMember == CHOOSE m \in DOMAIN Protocol : Protocol[m] = k.protocolId
      chainMember == CHOOSE m \in DOMAIN Chain : Chain[m] = k.chainId
  IN ProtocolKeyName[protocolMember] \o pascalCase(k.productId)
        \o ChainKeyName[chainMember] \o pascalCase(k.fileKey)

\* C12: key derivation.  Every artifact of a run is written at the path
\* /<protocolId>/<productId>/<chainName>.<fileKey> of its key, and every
\* registration binds the identifier protocolKey + pascal(productId) +
\* chainKey + pascal(fileKey) of its key, the same in the import and in the
\* entry of every array and the same in every run; the key (aa, bc, 1, t)
\* gives the path "/aa/bc/et.t" and the identifier "AaBcEtT".
KeyDerivation ==
  /\ \A w \in Range(written) :
        /\ w.path = TemplatePath(w.key)
        /\ w.path \in DOMAIN artifacts
        /\ w.key = KnownKey =>
              w.path = <<47, 97, 97, 47, 98, 99, 47, 101, 116, 46, 116>>
  /\ \A r \in Range(registered) :
        /\ TemplateIdentifier(r.key) \in GeneratedImportIdentifiers(registry)
        /\ \A a \in Range(ArraysOf(registry)) :
              HasEntry(a, TemplateIdentifier(r.key))
        /\ r.key = KnownKey =>
              <<65, 97, 66, 99, 69, 116, 84>>
                 \in GeneratedImportIdentifiers(registry)

\* the second run has derived the path and the identifier of a key that the
\* first run had derived already
KeyDerivedAgain ==
  /\ run = 2
  /\ previousRun # << >>
  /\ \E w \in Range(written), r \in Range(registered) :
        /\ w.key = r.key
        /\ w.path \in DOMAIN previousRun[1].artifacts
        /\ TemplateIdentifier(r.key)
              \in GeneratedImportIdentifiers(previousRun[1].registry)
        /\ EntryValues(registry) # {}

\* the two edits of addStaticImport, for the key k
ImportEditOf(file, k) ==
  addAdapterMetadataImport(file.body, FindProtocolKey(k.protocolId),
                           k.protocolId, k.productId,
                           FindChainKey(k.chainId), k.chainId, k.fileKey)
EntryEditOf(body, k) ==
  VisitDeclarators(body, FindProtocolKey(k.protocolId), k.productId,
                   FindChainKey(k.chainId), k.fileKey)
EditsFail(file, k) ==
  \/ ~file.syntaxOk
  \/ ImportEditOf(file, k).err
  \/ EntryEditOf(ImportEditOf(file, k).body, k).err

\* C13: registry write discipline.  One invocation of addStaticImport writes
\* the registry file at most once, as its last step and only when the parse
\* and both edits went through, and what it writes holds the result of both
\* edits; when the parse or one of the edits fails the file on disk is left
\* as it was and the invocation ends in the error.
RegistryWrittenOnceAfterEdits ==
  /\ [][ (registered' # registered /\ run' = run) =>
            /\ pc = "edit" /\ pc' = "adapter"
            /\ Len(registered') = Len(registered) + 1 ]_vars
  /\ [][ registry' # registry =>
            /\ pc = "edit"
            /\ Len(registered') = Len(registered) + 1
            /\ LET k == metadataDetails[1].fileDetails
               IN /\ ~EditsFail(contents[1], k)
                  /\ registry'.body =
                        EntryEditOf(ImportEditOf(contents[1], k).body, k).body ]_vars
  /\ [][ (pc = "edit" /\ EditsFail(contents[1], metadataDetails[1].fileDetails))
            => /\ registry' = registry
               /\ run' = run => (registered' = registered /\ pc' = "failed") ]_vars

\* a registration whose import edit went through and whose entry edit
\* failed has ended the run and left the file as it was read
EntryEditFailedFileIntact ==
  /\ pc = "failed" /\ lastError = "RegistryError"
  /\ contents # << >> /\ contents[1].syntaxOk
  /\ LET k == metadataDetails[1].fileDetails
     IN /\ ~ImportEditOf(contents[1], k).err
        /\ ImportEditOf(contents[1], k).body # contents[1].body
        /\ EntryEditOf(ImportEditOf(contents[1], k).body, k).err
  /\ registry = contents[1]

\* how many imports bind an identifier, how many array entries have it as value
ImportCount(file, identifier) ==
  Cardinality({i \in 1..Len(file.body) :
                 /\ file.body[i].kind = "import"
                 /\ file.body[i].hasSpecifier
                 /\ file.body[i].local = identifier})
EntryCount(file, identifier) ==
  Cardinality({p \in (1..Len(file.body)) \X (1..Len(file.body) + 2) :
                 /\ IsTypedDeclaration(file.body[p[1]])
                 /\ p[2] <= Len(file.body[p[1]].init.elements)
                 /\ file.body[p[1]].init.elements[p[2]].kind = "pair"
                 /\ file.body[p[1]].init.elements[p[2]].value = identifier})

\* C14 as stated: registration postcondition.  When addStaticImport(K)
\* completes without error on a file that holds at most one import and at
\* most one entry for the identifier of K, the file it writes holds exactly
\* one import binding that identifier and exactly one MetadataFiles entry
\* with that identifier as value, whatever declarations the file contains.
RegistrationPostcondition ==
  [][ (pc = "edit" /\ Len(registered') = Len(registered) + 1) =>
        LET identifier == KeyIdentifier(Last(registered').key)
        IN (/\ ImportCount(contents[1], identifier) <= 1
            /\ EntryCount(contents[1], identifier) <= 1)
           => /\ ImportCount(registry', identifier) = 1
              /\ EntryCount(registry', identifier) = 1 ]_vars

\* a registration has completed in this step; its key
Registers == Len(registered') = Len(registered) + 1
RegisteredKey == Last(registered').key

\* C15: import placement.  When no import of the file binds the identifier
\* of the key, the registration puts the new import behind all imports the
\* file had and in front of every other statement: the imports of the file
\* written are its first statements, the old ones in their order followed
\* by the new one, and no import stands behind a statement of another kind.
ImportPlacedAtEndOfImports ==
  [][ (Registers /\ ImportCount(registry, KeyIdentifier(RegisteredKey)) = 0) =>
        LET n == Len(ImportsOf(registry))
            after == registry'.body
        IN /\ Len(after) = Len(registry.body) + 1
           /\ SubSeq(after, 1, n) = ImportsOf(registry)
           /\ after[n + 1].kind = "import"
           /\ after[n + 1].hasSpecifier
           /\ after[n + 1].local = KeyIdentifier(RegisteredKey)
           /\ \A i \in (n + 2)..Len(after) : after[i].kind # "import" ]_vars

\* a file whose second import stood behind a statement of another kind has
\* got the import of the first key registered: the three imports lead
ImportsMadeContiguous ==
  /\ Len(registered) = 1
  /\ Len(registry.body) = 6
  /\ registry.body[1] = HandImport
  /\ registry.body[2] = ImportOf(ForeignKey)
  /\ registry.body[3].kind = "import"
  /\ registry.body[3].local = KeyIdentifier(registered[1].key)
  /\ registry.body[4] = CodeStmt(1)
  /\ registry.body[6] = CodeStmt(2)

\* the top-level statements with the initializers of the declarations left
\* out (the initializer is what the registry-entry edit works on)
Skeleton(body) ==
  [i \in 1..Len(body) |->
     IF body[i].kind = "decl" THEN [kind |-> "decl"] ELSE body[i]]
RemoveAt(seq, p) == SubSeq(seq, 1, p - 1) \o SubSeq(seq, p + 1, Len(seq))
ImportsLead(body) ==
  \A i, j \in 1..Len(body) :
     (i < j /\ body[j].kind = "import") => body[i].kind = "import"

\* C16 as stated: frame of the import edit.  A registration never removes,
\* changes or reorders a top-level statement the file had: the statements
\* of the file written are those of the file read, in the same order, with
\* at most the new import put in between, and they are the same list when
\* an import binding the identifier was there already.
ImportEditKeepsStatementOrder ==
  [][ Registers =>
        LET before == Skeleton(registry.body)
            after == Skeleton(registry'.body)
        IN IF ImportCount(registry, KeyIdentifier(RegisteredKey)) > 0
           THEN after = before
           ELSE \E p \in 1..Len(after) : RemoveAt(after, p) = before ]_vars

\* C16: frame of the import edit.  A registration never removes or changes
\* a top-level statement the file had; when an import binding the identifier
\* is there already the statement list stays as it is; otherwise the
\* statements that are no imports keep their order, the imports keep theirs
\* with the new one added behind them, and no statement changes its place
\* relative to another one if the imports were the first statements of the
\* file (imports that stood behind another statement are moved in front of
\* it).
ImportEditFrame ==
  [][ Registers =>
        LET before == Skeleton(registry.body)
            after == Skeleton(registry'.body)
        IN IF ImportCount(registry, KeyIdentifier(RegisteredKey)) > 0
           THEN after = before
           ELSE /\ SelectSeq(after, IsNotImportDeclaration)
                     = SelectSeq(before, IsNotImportDeclaration)
                /\ Len(SelectSeq(after, IsImportDeclaration))
                     = Len(SelectSeq(before, IsImportDeclaration)) + 1
                /\ SubSeq(SelectSeq(after, IsImportDeclaration), 1,
                          Len(SelectSeq(before, IsImportDeclaration)))
                     = SelectSeq(before, IsImportDeclaration)
                /\ ImportsLead(registry.body) =>
                     \E p \in 1..Len(after) : RemoveAt(after, p) = before ]_vars

\* a file whose second import stood behind another statement: the first
\* registration found its import and left the statements alone, the second
\* one added an import and moved that second import in front
ImportMovedInFront ==
  /\ Len(registered) = 2
  /\ registered[1].key = ForeignKey
  /\ Len(registry.body) = 6
  /\ registry.body[2] = ImportOf(ForeignKey)
  /\ registry.body[3].kind = "import"
  /\ registry.body[3].local = KeyIdentifier(registered[2].key)
  /\ registry.body[4] = CodeStmt(1)
  /\ registry.body[6] = CodeStmt(2)

\* C17: frame of the registry-entry edit.  A registration leaves every
\* MetadataFiles array that holds a pair with the identifier of the key as
\* it is, no element added, removed or moved; to an array without such a
\* pair it adds exactly one pair, the one with that identifier, and keeps
\* all elements the array had.
EntryEditFrame ==
  [][ Registers =>
        /\ Len(ArraysOf(registry')) = Len(ArraysOf(registry))
        /\ \A n \in 1..Len(ArraysOf(registry)) :
              LET before == ArraysOf(registry)[n]
                  after == ArraysOf(registry')[n]
              IN IF HasEntry(before, KeyIdentifier(RegisteredKey))
                 THEN after = before
                 ELSE /\ Len(after) = Len(before) + 1
                      /\ \E p \in 1..Len(after) :
                            /\ after[p].kind = "pair"
                            /\ after[p].value = KeyIdentifier(RegisteredKey)
                            /\ RemoveAt(after, p) = before ]_vars

\* the same key registered twice: the first registration added its pair to
\* a non-empty array, the second one found it and left the array alone
RegisteredTwiceOneEntry ==
  /\ Len(registered) = 2
  /\ registered[1].key = registered[2].key
  /\ registered[1].key \notin {KnownKey, ForeignKey}
  /\ ArraysOf(registry) # << >>
  /\ Len(ArraysOf(registry)[1]) >= 2
  /\ EntryCount(registry, KeyIdentifier(registered[1].key)) = 1

\* the expression metadataKey({...}) stands for the key k: its protocolId
\* and chainId name the members of Protocol and Chain whose values are the
\* ids of k, its productId and fileKey are those of k
ExpressionDenotes(expression, k) ==
  /\ expression.callee = "metadataKey"
  /\ expression.protocolId.object = "Protocol"
  /\ \E m \in DOMAIN Protocol :
        /\ ProtocolKeyName[m] = expression.protocolId.property
        /\ Protocol[m] = k.protocolId
  /\ expression.productId = k.productId
  /\ expression.chainId.object = "Chain"
  /\ \E m \in DOMAIN Chain :
        /\ ChainKeyName[m] = expression.chainId.property
        /\ Chain[m] = k.chainId
  /\ expression.fileKey = k.fileKey

\* C18: the inserted entry matches its key.  The pair that a registration
\* adds to a MetadataFiles array is (metadataKey({protocolId:
\* Protocol.<protocolKey>, productId, chainId: Chain.<chainKey>, fileKey}),
\* identifier) with the components and the generated identifier of the key
\* being registered.
InsertedEntryMatchesKey ==
  [][ Registers =>
        \A n \in 1..Len(ArraysOf(registry)) :
           LET before == ArraysOf(registry)[n]
               after == ArraysOf(registry')[n]
           IN ~HasEntry(before, KeyIdentifier(RegisteredKey)) =>
                 \E p \in 1..Len(after) :
                    /\ RemoveAt(after, p) = before
                    /\ after[p].kind = "pair"
                    /\ after[p].value = TemplateIdentifier(RegisteredKey)
                    /\ ExpressionDenotes(after[p].key, RegisteredKey) ]_vars

\* the entry of a key of the second chain is in an array: Protocol.Aa,
\* Chain.Op and the productId and fileKey of the key
EntryOfSecondChainInserted ==
  /\ Len(registered) >= 1
  /\ registered[1].key.chainId = Optimism
  /\ ArraysOf(registry) # << >>
  /\ \E p \in 1..Len(ArraysOf(registry)[1]) :
        LET e == ArraysOf(registry)[1][p]
        IN /\ e.kind = "pair"
           /\ e.value = TemplateIdentifier(registered[1].key)
           /\ e.key.protocolId.property = <<65, 97>>
           /\ e.key.chainId.property = <<79, 112>>
           /\ e.key.productId = registered[1].key.productId
           /\ e.key.fileKey = registered[1].key.fileKey

\* the statements of a file that are neither imports nor declarations
CodeOf(file) ==
  {file.body[i] : i \in {j \in 1..Len(file.body) : file.body[j].kind = "code"}}

\* C19: no lost update within a run.  Every invocation of addStaticImport
\* edits the text that is on disk when it runs, never a text or a tree read
\* before an earlier write: what a registration writes keeps every import,
\* every entry and every other statement that the file held just before,
\* whether an earlier registration of the run or somebody else put it
\* there, and the imports and entries of all registrations of the run stay
\* in the file.
NoLostUpdate ==
  /\ [](pc = "edit" => contents = << registry >>)
  /\ [][ Registers =>
           /\ GeneratedImportIdentifiers(registry)
                 \subseteq GeneratedImportIdentifiers(registry')
           /\ EntryValues(registry) \subseteq EntryValues(registry')
           /\ CodeOf(registry) \subseteq CodeOf(registry') ]_vars
  /\ [](\A r \in Range(registered) : Committed(r))

\* between two registrations of a run somebody else registered ForeignKey:
\* the three imports stand in the file in that order, with all three entries
ExternalChangeBetweenRegistrations ==
  /\ run = 1
  /\ Len(registered) = 2
  /\ ArraysOf(registry) # << >>
  /\ LET imports == ImportsOf(registry)
     IN /\ Len(imports) = 4
        /\ imports[2].local = KeyIdentifier(registered[1].key)
        /\ imports[3] = ImportOf(ForeignKey)
        /\ imports[4].local = KeyIdentifier(registered[2].key)
  /\ {KeyIdentifier(registered[1].key), KeyIdentifier(ForeignKey),
      KeyIdentifier(registered[2].key)} \subseteq EntryValues(registry)

\* enumeration order of the adapters of a run: pair first, then position
AdapterBefore(x, y) == x[1] < y[1] \/ (x[1] = y[1] /\ x[2] < y[2])
CallAdapter(call) == << call[1], call[2] >>

\* C20: strictly sequential processing.  The adapters of a run are taken
\* one at a time in enumeration order, and for each one the capability is
\* invoked, the payload validated, the artifact written and the registry
\* edited in that order: an artifact is written only for the adapter whose
\* call came last and whose payload passed validation, a registry write
\* follows the artifact write of the same adapter, and a capability is
\* invoked only when every artifact written so far belongs to an earlier
\* adapter and has been registered.
StrictlySequential ==
  /\ [](/\ Len(registered) <= Len(written)
        /\ Len(written) <= Len(registered) + 1
        /\ \A i \in 1..Len(registered) :
              registered[i].adapter = written[i].adapter
        /\ \A i, j \in 1..Len(invoked) :
              i < j => ~AdapterBefore(CallAdapter(invoked[j]),
                                      CallAdapter(invoked[i])))
  /\ [][ CallMade =>
           /\ CallAdapter(Last(invoked')) = AdapterId
           /\ Len(written) = Len(registered)
           /\ \A w \in Range(written) : AdapterBefore(w.adapter, AdapterId) ]_vars
  /\ [][ (run' = run /\ written' # written) =>
           /\ Len(written) = Len(registered)
           /\ written' = Append(written, Last(written'))
           /\ Last(written').adapter = AdapterId
           /\ DecidingCall(AdapterId) \in Range(invoked)
           /\ CallAdapter(Last(invoked)) = AdapterId
           /\ getMetadataInvalidAddresses(metadataDetails[1].metadata) = << >>
           /\ UNCHANGED << registry, registered, invoked >> ]_vars
  /\ [][ (run' = run /\ Registers) =>
           /\ Len(written) = Len(registered) + 1
           /\ Last(written).adapter = AdapterId
           /\ Last(registered').adapter = AdapterId
           /\ Last(written).path \in DOMAIN artifacts
           /\ UNCHANGED << artifacts, written, invoked >> ]_vars

\* the second adapter of a run has been asked, validated and written and
\* is at its registry edit, after the first one was registered
SecondAdapterAfterFirstRegistered ==
  /\ pc = "edit"
  /\ Len(registered) = 1
  /\ Len(written) = 2
  /\ AdapterBefore(registered[1].adapter, written[2].adapter)
  /\ CallAdapter(Last(invoked)) = written[2].adapter
  /\ \E c \in Range(invoked) : CallAdapter(c) = registered[1].adapter

\* position of a protocol in supportedProtocols, and of a chain in the list
\* of chains of its protocol
ProtocolPosition(protocolId) ==
  CHOOSE i \in 1..Len(supportedProtocols) :
     supportedProtocols[i].protocolId = protocolId
ChainPosition(protocolId, chainId) ==
  LET chains == supportedProtocols[ProtocolPosition(protocolId)].chains
  IN CHOOSE i \in 1..Len(chains) : chains[i] = chainId
CallPair(call) == Pairs[call[1]]

\* C21 as stated: enumeration order.  The calls of a run follow the order
\* in which the protocols are listed, within a protocol the order in which
\* its chains are listed, and within a pair the order of its adapters.
EnumerationFollowsListing ==
  \A i, j \in 1..Len(invoked) :
     i < j =>
        LET a == CallPair(invoked[i])
            b == CallPair(invoked[j])
        IN /\ ProtocolPosition(a.protocolId) <= ProtocolPosition(b.protocolId)
           /\ a.protocolId = b.protocolId =>
                 ChainPosition(a.protocolId, a.chainId)
                    <= ChainPosition(b.protocolId, b.chainId)
           /\ a = b => invoked[i][2] <= invoked[j][2]

\* C21: enumeration order.  The calls of a run follow the order in which
\* the protocols are listed, within a protocol the ascending numeric order
\* of its chain ids (whatever order the chains are listed in), and within
\* a pair the order of its adapters; the adapter asked is the one at that
\* position of the list of the pair.
EnumerationOrder ==
  \A i, j \in 1..Len(invoked) :
     i < j =>
        LET a == CallPair(invoked[i])
            b == CallPair(invoked[j])
        IN /\ ProtocolPosition(a.protocolId) <= ProtocolPosition(b.protocolId)
           /\ a.protocolId = b.protocolId => a.chainId <= b.chainId
           /\ a = b => invoked[i][2] <= invoked[j][2]
           /\ invoked[i][2] \in
                 1..Len(fetchChainProtocolAdapters(a.chainId, a.protocolId))

\* an adapter of chain 1 was asked before an adapter of chain 10 of the
\* same protocol, which lists chain 10 first
ChainsVisitedAscending ==
  \E i, j \in 1..Len(invoked) :
     /\ i < j
     /\ CallPair(invoked[i]) = [protocolId |-> ProtoAa, chainId |-> Ethereum]
     /\ CallPair(invoked[j]) = [protocolId |-> ProtoAa, chainId |-> Optimism]
     /\ ChainPosition(ProtoAa, Optimism) < ChainPosition(ProtoAa, Ethereum)

\* the loops stand at a pair that the filters let through and whose chain
\* has no provider
ProviderMissingHere ==
  /\ pc = "pair"
  /\ pairIdx <= Len(Pairs)
  /\ PairPasses(pairIdx)
  /\ Pairs[pairIdx].chainId \notin chainProviders

\* C22: ProviderMissing.  At a pair that passes the filters and whose chain
\* has no provider the run ends with ProviderMissingError before any adapter
\* of the pair is asked; no later pair is processed, no file changes any
\* more, and the artifacts and registry entries of the earlier pairs stay;
\* the error is raised for no pair that a filter excludes.
ProviderMissingEndsRun ==
  /\ [][ ProviderMissingHere =>
           /\ pc' = "failed"
           /\ lastError' = "ProviderMissingError"
           /\ UNCHANGED << files, history, pairIdx >> ]_vars
  /\ [](lastError = "ProviderMissingError" =>
           /\ pc = "failed"
           /\ PairPasses(pairIdx)
           /\ Pairs[pairIdx].chainId \notin chainProviders
           /\ \A c \in Range(invoked) : c[1] < pairIdx
           /\ \A w \in Range(written) :
                 w.adapter[1] < pairIdx /\ w.path \in DOMAIN artifacts
           /\ \A r \in Range(registered) :
                 r.adapter[1] < pairIdx /\ Committed(r))
  /\ [][ lastError = "ProviderMissingError" =>
           /\ UNCHANGED files
           /\ run' = run => UNCHANGED vars ]_vars

\* the run ended at the second pair for want of a provider, after the
\* first pair was registered and with a third pair left that passes
ProviderMissingMidRun ==
  /\ pc = "failed" /\ lastError = "ProviderMissingError"
  /\ pairIdx = 2
  /\ registered # << >>
  /\ PairPasses(3)
  /\ \A r \in Range(registered) : Committed(r)

\* how often a call, a write or a registration of an adapter is in the
\* history of the run
CallCount(call) == Cardinality({i \in 1..Len(invoked) : invoked[i] = call})
AdapterCallCount(adapterId) ==
  Cardinality({i \in 1..Len(invoked) : CallAdapter(invoked[i]) = adapterId})
WriteCount(adapterId) ==
  Cardinality({i \in 1..Len(written) : written[i].adapter = adapterId})
RegistrationCount(adapterId) ==
  Cardinality({i \in 1..Len(registered) : registered[i].adapter = adapterId})

\* the adapters of the pairs that the filters let through
SelectedAdapters ==
  {x \in (1..Len(Pairs)) \X (1..(MaxAdaptersPerPair + 1)) :
     /\ PairPasses(x[1])
     /\ x[2] <= Len(fetchChainProtocolAdapters(Pairs[x[1]].chainId,
                                               Pairs[x[1]].protocolId))}

\* a registry file that parses, whose imports all bind a name and whose
\* MetadataFiles declarations, at least one, are arrays of pairs
WellFormedRegistry(file) ==
  /\ file.syntaxOk
  /\ ArraysOf(file) # << >>
  /\ \A i \in 1..Len(file.body) :
        /\ file.body[i].kind = "import" => file.body[i].hasSpecifier
        /\ file.body[i].kind = "decl" =>
              /\ file.body[i].init.shape = "newMapArray"
              /\ \A e \in Range(file.body[i].init.elements) : e.kind = "pair"

\* C23 as stated: completion.  A run that ends without an error has invoked
\* every adapter of every selected pair exactly once and has written and
\* registered one artifact for each adapter that returned metadata.
EachAdapterInvokedOnce ==
  pc = "done" =>
     /\ \A x \in SelectedAdapters : AdapterCallCount(x) = 1
     /\ \A c \in Range(invoked) :
           outputs[c].kind = "metadata" =>
              /\ WriteCount(CallAdapter(c)) = 1
              /\ RegistrationCount(CallAdapter(c)) = 1

\* the call of an adapter that decides its result returned metadata
ReturnedMetadata(adapterId) ==
  /\ AdapterOf(adapterId).version = 2 \/ AdapterOf(adapterId).isBuilder
  /\ DecidingCall(adapterId) \in DOMAIN outputs
  /\ outputs[DecidingCall(adapterId)].kind = "metadata"

\* C23: completion.  A run always terminates, and it ends in an error only
\* when a call failed with an error other than NotImplementedError, a
\* payload failed validation, a selected chain had no provider or the
\* registry file was not well formed.  A run that ends without an error has
\* visited every adapter of every selected pair and invoked each capability
\* the adapter exposes exactly once (getProtocolTokens of a version-2
\* adapter, buildMetadata of a metadata builder: two calls, one or none),
\* and has written and registered exactly one artifact for each adapter
\* whose deciding call returned metadata and none for the others.
RunCompletes ==
  /\ (~Terminated) ~> Terminated
  /\ [](pc = "aborted" => stderr # << >>)
  /\ [](pc = "failed" =>
           \/ lastError = "AdapterError" /\ FailedCall
           \/ lastError = "ProviderMissingError"
                 /\ PairPasses(pairIdx)
                 /\ Pairs[pairIdx].chainId \notin chainProviders
           \/ lastError = "RegistryError" /\ ~WellFormedRegistry(registry))
  /\ [](pc = "done" =>
           \A x \in SelectedAdapters :
              /\ CallCount(<< x[1], x[2], "getProtocolTokens" >>)
                    = IF AdapterOf(x).version = 2 THEN 1 ELSE 0
              /\ CallCount(<< x[1], x[2], "buildMetadata" >>)
                    = IF AdapterOf(x).isBuilder THEN 1 ELSE 0
              /\ WriteCount(x) = IF ReturnedMetadata(x) THEN 1 ELSE 0
              /\ RegistrationCount(x) = WriteCount(x)
              /\ ReturnedMetadata(x) =>
                    /\ KeyPath(FileDetails(Pairs[x[1]], AdapterOf(x)))
                          \in DOMAIN artifacts
                    /\ KeyIdentifier(FileDetails(Pairs[x[1]], AdapterOf(x)))
                          \in GeneratedImportIdentifiers(registry)
                    /\ WellFormedRegistry(registry) =>
                          KeyIdentifier(FileDetails(Pairs[x[1]], AdapterOf(x)))
                             \in EntryValues(registry))

\* a run without filters on a well-formed registry has ended without an
\* error: all pairs visited, an adapter with two calls, an adapter with
\* none, and four artifacts or more registered
CompleteRunDone ==
  /\ pc = "done"
  /\ ~filterProtocolIds.present /\ ~filterChainIds.present
  /\ WellFormedRegistry(registry)
  /\ Len(registered) >= 4
  /\ \E x \in SelectedAdapters : AdapterCallCount(x) = 2
  /\ \E x \in SelectedAdapters : AdapterCallCount(x) = 0

\* the imports and the entry values of a file
ImportSet(file) == Range(ImportsOf(file))

\* C24: artifact before registry.  Whenever a step of a run adds an import
\* or a MetadataFiles entry to the registry file, the artifact it refers to
\* is on disk and was written by this run, for the same key and as the last
\* artifact written; artifact files are never removed, so at every point of
\* a run every key registered by the run has its artifact written.
ArtifactWrittenBeforeRegistry ==
  /\ [][ registry' # registry =>
           /\ written # << >>
           /\ Last(written).key = RegisteredKey
           /\ Last(written).path \in DOMAIN artifacts
           /\ \A s \in ImportSet(registry') \ ImportSet(registry) :
                 /\ ResolveImport(s.source) = Last(written).path
                 /\ s.local = KeyIdentifier(Last(written).key)
           /\ EntryValues(registry') \ EntryValues(registry)
                 \subseteq {KeyIdentifier(Last(written).key)} ]_vars
  /\ [][ DOMAIN artifacts \subseteq DOMAIN artifacts' ]_vars
  /\ [](\A i \in 1..Len(registered) :
           /\ i <= Len(written)
           /\ written[i].key = registered[i].key
           /\ written[i].path \in DOMAIN artifacts)

\* two keys are registered with their artifacts on disk, and the artifact
\* of a third one, unknown to the registry, is about to be written
ThirdArtifactNotYetRegistered ==
  /\ pc = "write"
  /\ Len(registered) >= 2
  /\ \A r \in Range(registered) :
        \E s \in ImportSet(registry) :
           /\ s.local = KeyIdentifier(r.key)
           /\ ResolveImport(s.source) \in DOMAIN artifacts
  /\ KeyIdentifier(metadataDetails[1].fileDetails)
        \notin GeneratedImportIdentifiers(registry)
  /\ KeyPath(metadataDetails[1].fileDetails) \notin DOMAIN artifacts

\* the adapters of the selected pairs that are version 2 and metadata
\* builders, and their two calls
DualAdapters ==
  {x \in SelectedAdapters : AdapterOf(x).version = 2 /\ AdapterOf(x).isBuilder}
TokensCall(x) == << x[1], x[2], "getProtocolTokens" >>
BuildCall(x) == << x[1], x[2], "buildMetadata" >>
IndexOf(call) == CHOOSE i \in 1..Len(invoked) : invoked[i] = call

\* C25: adapter with both capabilities.  For a version-2 adapter that is
\* also a metadata builder buildMetadata is invoked only after
\* getProtocolTokens, as the next call; at most one artifact is written and
\* registered for the adapter; what is validated, written and registered
\* is the result of buildMetadata, whatever getProtocolTokens returned, and
\* when buildMetadata fails with NotImplementedError nothing is written or
\* registered for the adapter.
BuildMetadataDecides ==
  /\ [](\A x \in DualAdapters :
           /\ BuildCall(x) \in Range(invoked) =>
                 /\ TokensCall(x) \in Range(invoked)
                 /\ IndexOf(BuildCall(x)) = IndexOf(TokensCall(x)) + 1
           /\ WriteCount(x) <= 1
           /\ RegistrationCount(x) <= WriteCount(x)
           /\ WriteCount(x) = 1 =>
                 /\ BuildCall(x) \in Range(invoked)
                 /\ outputs[BuildCall(x)].kind = "metadata"
           /\ (BuildCall(x) \in Range(invoked)
                 /\ outputs[BuildCall(x)] = NotImplementedError) =>
                 WriteCount(x) = 0 /\ RegistrationCount(x) = 0)
  /\ [][ (pc = "build" /\ AdapterId \in DualAdapters /\ CallMade) =>
           /\ Last(invoked') = BuildCall(AdapterId)
           /\ CallOutcome.kind = "metadata" =>
                 metadataDetails' # << >>
                    /\ metadataDetails'[1].metadata = CallOutcome.metadata
           /\ CallOutcome.kind = "notImplemented" => metadataDetails' = << >> ]_vars
  /\ [][ (pc = "write" /\ AdapterId \in DualAdapters /\ written' # written) =>
           artifacts'[Last(written').path].data
              = outputs[BuildCall(AdapterId)].metadata ]_vars

\* getProtocolTokens of such an adapter returned metadata, buildMetadata
\* was not implemented, and the run went on without an artifact for it
TokensResultDropped ==
  \E x \in DualAdapters :
     /\ TokensCall(x) \in Range(invoked)
     /\ outputs[TokensCall(x)].kind = "metadata"
     /\ BuildCall(x) \in Range(invoked)
     /\ outputs[BuildCall(x)] = NotImplementedError
     /\ AdapterBefore(x, AdapterId)
     /\ WriteCount(x) = 0 /\ RegistrationCount(x) = 0
     /\ KeyPath(FileDetails(Pairs[x[1]], AdapterOf(x))) \notin DOMAIN artifacts

\* the identifier of k is bound in the file by the import of another key,
\* and every MetadataFiles array has an entry with it
TakenByAnotherKey(file, k) ==
  /\ \E s \in ImportSet(file) :
        /\ s.hasSpecifier
        /\ s.local = KeyIdentifier(k)
        /\ s.source # KeyImportPath(k)
  /\ \A a \in Range(ArraysOf(file)) : HasEntry(a, KeyIdentifier(k))

\* C26: identifier collision.  When the identifier of a key is already
\* registered for a different key, the registration of the key raises no
\* error and leaves the statements of the registry file, imports and
\* MetadataFiles entries, as they are: the import keeps the path of the
\* first key and nothing is added; the artifact of the second key has been
\* written to its own path all the same.
CollisionLeavesRegistryAlone ==
  [][ (pc = "edit"
         /\ TakenByAnotherKey(contents[1], metadataDetails[1].fileDetails)) =>
        LET k == metadataDetails[1].fileDetails
        IN /\ pc' = "adapter"
           /\ UNCHANGED lastError
           /\ registered' = Append(registered, [adapter |-> AdapterId, key |-> k])
           /\ registry'.body = registry.body
           /\ ImportCount(registry', KeyIdentifier(k)) = 1
           /\ EntryCount(registry', KeyIdentifier(k)) = Len(ArraysOf(registry))
           /\ KeyPath(k) \in DOMAIN artifacts
           /\ artifacts[KeyPath(k)].data = metadataDetails[1].metadata
           /\ UNCHANGED artifacts ]_vars

\* two different keys with one identifier have been processed: two
\* artifacts on disk, one import, with the path of the first key, one entry
SecondKeyOfIdentifierSkipped ==
  /\ pc = "adapter"
  /\ \E i, j \in 1..Len(registered) :
        /\ i < j
        /\ registered[i].key # registered[j].key
        /\ KeyIdentifier(registered[i].key) = KeyIdentifier(registered[j].key)
        /\ {KeyPath(registered[i].key), KeyPath(registered[j].key)}
              \subseteq DOMAIN artifacts
        /\ ImportCount(registry, KeyIdentifier(registered[j].key)) = 1
        /\ EntryCount(registry, KeyIdentifier(registered[j].key)) = 1
        /\ \E s \in ImportSet(registry) :
              s.source = KeyImportPath(registered[i].key)
        /\ \A s \in ImportSet(registry) :
              s.source # KeyImportPath(registered[j].key)

\* C27: import path agrees with artifact path.  In every step that
\* registers a key and adds an import to the registry file, the literal of
\* the added import is "../" followed by protocolId/productId/chainName.fileKey
\* of that key, the artifact of the run for that key was written at
\* "/" followed by the same four components, and so the literal, resolved
\* from the directory of the registry file, designates exactly the artifact
\* file written for the key, which is on disk.
ImportDesignatesArtifact ==
  [][ Registers =>
        \A s \in ImportSet(registry') \ ImportSet(registry) :
           /\ s.source = <<46, 46, 47>> \o RegisteredKey.protocolId \o <<47>>
                            \o RegisteredKey.productId \o <<47>>
                            \o ChainName[RegisteredKey.chainId] \o <<46>>
                            \o RegisteredKey.fileKey
           /\ \E i \in 1..Len(written) :
                 /\ written[i].key = RegisteredKey
                 /\ written[i].path = TemplatePath(RegisteredKey)
                 /\ ResolveImport(s.source) = written[i].path
           /\ ResolveImport(s.source) \in DOMAIN artifacts
           /\ \A j \in 1..Len(written) :
                 written[j].key # RegisteredKey =>
                    ResolveImport(s.source) # written[j].path ]_vars

\* two keys of different chains have been registered in a run, and the
\* import of each designates the artifact written for it and not the other
TwoImportsDesignateOwnArtifacts ==
  \E i, j \in 1..Len(registered) :
     /\ registered[i].key.chainId # registered[j].key.chainId
     /\ \A n \in {i, j} :
          \E s \in ImportSet(registry) :
             /\ s.local = KeyIdentifier(registered[n].key)
             /\ s.source = KeyImportPath(registered[n].key)
             /\ ResolveImport(s.source) = KeyPath(registered[n].key)
             /\ ResolveImport(s.source) \in DOMAIN artifacts
     /\ KeyPath(registered[i].key) # KeyPath(registered[j].key)

====
